---- MODULE Spec2Model ----
(***************************************************************************)
(* A model of the FMCSA Clearinghouse automation: the Express server of    *)
(* src/server.ts (API-key middleware, POST /upload-drivers/:company_uuid)  *)
(* and the Playwright routine run() of src/main.ts.                        *)
(*                                                                         *)
(* JavaScript runs every handler to completion between two awaits, so one  *)
(* action of the model is one such synchronous segment: it starts when an  *)
(* awaited promise settles (or a request arrives) and ends where the next  *)
(* promise is awaited.  The portal, the browser and the clock are the      *)
(* environment: whether an element is found, whether a browser call        *)
(* rejects, and when the millisecond clock advances are chosen             *)
(* nondeterministically.                                                   *)
(*                                                                         *)
(* A JavaScript string is a sequence of text chunks.  The tab and the      *)
(* newline are always chunks of their own, and no other chunk contains     *)
(* either, so splitting and joining work as they do on characters.         *)
(***************************************************************************)
EXTENDS Integers, Sequences, FiniteSets, TLC

\* ------------------------------------------------------------------ bounds
\* The number of driver records in a request body of the serialization check.
MaxDrivers == 2
\* The last value of the millisecond clock Date.now().
MaxClock == 1

\* ------------------------------------------------------------------ strings
TAB == "\t"
NL == "\n"

\* Array.prototype.join on an array of strings.
RECURSIVE join(_, _)
join(arr, sep) ==
    IF Len(arr) = 0 THEN <<>>
    ELSE IF Len(arr) = 1 THEN arr[1]
    ELSE arr[1] \o <<sep>> \o join(Tail(arr), sep)

\* The number of occurrences of a chunk in a string.
count(str, c) == Cardinality({i \in 1..Len(str) : str[i] = c})

\* String.prototype.split on a one-chunk separator: the pieces between the
\* occurrences of sep (used to state properties, the program never splits).
split(str, sep) ==
    LET at == {i \in 1..Len(str) : str[i] = sep}
        \* the position of the k-th separator; 0 and Len(str) + 1 bound the string
        pos(k) == IF k = 0 THEN 0
                  ELSE IF k > Cardinality(at) THEN Len(str) + 1
                  ELSE CHOOSE i \in at : Cardinality({j \in at : j < i}) = k - 1
    IN  [k \in 1..(Cardinality(at) + 1) |-> SubSeq(str, pos(k - 1) + 1, pos(k) - 1)]

\* ------------------------------------------------------------------ TSV
\* The fields of interface DriverData, in declaration order.
DriverData == <<"LastName", "FirstName", "DOB", "CDL", "Country", "State", "QueryType">>

\* const header = 'LastName\tFirstName\tDOB\tCDL\tCountry\tState\tQueryType'
header ==
    <<"LastName", TAB, "FirstName", TAB, "DOB", TAB, "CDL", TAB,
      "Country", TAB, "State", TAB, "QueryType">>

\* A row with two columns exchanged (DOB and CDL).
rowSwapped(d) ==
    d.LastName \o <<TAB>> \o d.FirstName \o <<TAB>> \o d.CDL \o <<TAB>> \o d.DOB
        \o <<TAB>> \o d.Country \o <<TAB>> \o d.State \o <<TAB>> \o d.QueryType

\* The template literal of drivers.map(d => `${d.LastName}\t...\t${d.QueryType}`).
row(d) ==
    d.LastName \o <<TAB>> \o d.FirstName \o <<TAB>> \o d.DOB \o <<TAB>> \o d.CDL
        \o <<TAB>> \o d.Country \o <<TAB>> \o d.State \o <<TAB>> \o d.QueryType

\* const rows = drivers.map(...)
rows(drivers) == [i \in 1..Len(drivers) |-> row(drivers[i])]

\* const tsvContent = [header, ...rows].join('\n')
tsvContent(drivers) == join(<<header>> \o rows(drivers), NL)

\* ------------------------------------------------------------------ inputs
\* The requests the server handles concurrently, numbered in order of arrival
\* (the standalone script is the first and only one).  Requests meet only in the
\* data directory, two at a time, at a path both were given.
Reqs == {1, 2}

\* Values of the x-api-key header; "" is an absent header.
Keys == {"", "k1", "k2"}
\* Values of process.env.API_KEY; "" is an unset (or empty) variable.
ApiKeyEnvs == {"", "k1"}
\* Values of the :company_uuid route parameter (Express never matches an empty one).
CompanyIds == {"c1"}
\* Values of process.env.COMPANY_UUID; "" is an unset variable.
CompanyEnvs == {"", "c2"}

Doe == [LastName |-> <<"Doe">>, FirstName |-> <<"John">>, DOB |-> <<"01/01/1980">>,
        CDL |-> <<"123456789">>, Country |-> <<"US">>, State |-> <<"NY">>,
        QueryType |-> <<"1">>]
Roe == [Doe EXCEPT !.LastName = <<"Roe">>]

\* A parsed JSON body: an array of driver records, or a value that is no array.
NotArray == [isArray |-> FALSE, items |-> <<>>]
Array(items) == [isArray |-> TRUE, items |-> items]
Bodies == {NotArray, Array(<<>>), Array(<<Doe>>), Array(<<Roe>>)}

\* data/sample.tsv, which the repository ships for the standalone script.
SampleTsv == tsvContent(<<Doe>>)

\* File paths: data/upload_<ts>.tsv, data/sample.tsv, and no path at all.
UploadPath(ts) == [name |-> "upload", ts |-> ts]
SamplePath == [name |-> "sample", ts |-> 0]
NoPath == [name |-> "", ts |-> 0]

\* Errors: a kind and what it is about; NoError is the absence of one.
Error(kind, what) == [kind |-> kind, what |-> what]
NoError == Error("none", "")
\* locator.waitFor / locator.fill timing out because the element never shows.
NotFound(selector) == Error("TimeoutError", selector)
\* A call into the browser that rejects.
Rejected(call) == Error("Error", call)
\* throw new Error('Company UUID is required. ...')
UuidRequired == Error("Error", "Company UUID is required")

\* HTTP responses.
NoRes == [status |-> 0, file |-> NoPath, details |-> NoError]
Res(status, file, details) == [status |-> status, file |-> file, details |-> details]

\* ------------------------------------------------------------------ state
VARIABLES
    mode,        \* "server": ts-node src/server.ts; "cli": ts-node src/main.ts
    API_KEY,     \* process.env.API_KEY
    COMPANY_UUID,\* process.env.COMPANY_UUID
    now,         \* Date.now()
    files,       \* data/upload_<ts>.tsv: timestamp -> content, for the files that exist
    pc,          \* per request: the promise its run() awaits, "idle" or "done"
    apiKey,      \* per request: req.headers['x-api-key']
    drivers,     \* per request: req.body
    filePath,    \* per request: the path written and passed to run()
    companyUUID, \* per request: the companyUUID argument of run() ("" is undefined)
    browser,     \* per request: "none", "open" or "closed"
    context,     \* per request: "none", "open" or "closed"
    navigated,   \* per request: page.goto has been called
    selected,    \* per request: the option selected in #EmployerId
    uploads,     \* per request: the contents handed to #BulkFile
    thrown,      \* per request: the error caught by run()'s catch block
    pending,     \* per request: the error thrown out of the catch block
    runError,    \* per request: the error run() rejected with
    res,         \* per request: the HTTP response sent
    input,       \* serialization check: the drivers array
    output       \* serialization check: the text produced, <<>> before it is

vars == <<mode, API_KEY, COMPANY_UUID, now, files, pc, apiKey, drivers, filePath,
          companyUUID, browser, context, navigated, selected, uploads, thrown,
          pending, runError, res, input, output>>

envVars == <<mode, API_KEY, COMPANY_UUID>>
tsvVars == <<input, output>>
reqVars == <<apiKey, drivers>>

InitRequests ==
    /\ now = 0
    /\ files = <<>>
    /\ pc = [r \in Reqs |-> "idle"]
    /\ apiKey = [r \in Reqs |-> ""]
    /\ drivers = [r \in Reqs |-> NotArray]
    /\ filePath = [r \in Reqs |-> NoPath]
    /\ companyUUID = [r \in Reqs |-> ""]
    /\ browser = [r \in Reqs |-> "none"]
    /\ context = [r \in Reqs |-> "none"]
    /\ navigated = [r \in Reqs |-> FALSE]
    /\ selected = [r \in Reqs |-> ""]
    /\ uploads = [r \in Reqs |-> <<>>]
    /\ thrown = [r \in Reqs |-> NoError]
    /\ pending = [r \in Reqs |-> NoError]
    /\ runError = [r \in Reqs |-> NoError]
    /\ res = [r \in Reqs |-> NoRes]

\* The server never reads COMPANY_UUID's value (the route parameter is never empty,
\* and `companyUUID || process.env.COMPANY_UUID` stops at it); the standalone
\* script never reads API_KEY.  The variable a program does not read is left unset.
Init ==
    /\ \/ mode = "server" /\ API_KEY \in ApiKeyEnvs /\ COMPANY_UUID = ""
       \/ mode = "cli" /\ API_KEY = "" /\ COMPANY_UUID \in CompanyEnvs
    /\ InitRequests
    /\ input = <<>>
    /\ output = <<>>

\* ------------------------------------------------------------------ server.ts
\* A middleware that rejects only a missing header.
authenticateAPIKeyNoCompare(key) ==
    IF API_KEY = "" THEN "next"
    ELSE IF key = "" THEN "403"
    ELSE "next"

\* authenticateAPIKey: "next" when the request goes on to the handler.
authenticateAPIKey(key) ==
    IF API_KEY = "" THEN "next"
    ELSE IF key = "" \/ key # API_KEY THEN "403"
    ELSE "next"

\* A check that forgets the empty array.
isRejectedBodyNoLength(body) == ~body.isArray

\* if (!Array.isArray(drivers) || drivers.length === 0)
isRejectedBody(body) == ~body.isArray \/ Len(body.items) = 0

\* A handler that reports success whatever run() did.
handlerResultAlwaysOk(path, e) == Res(200, path, NoError)

\* What the handler answers once `await run(filePath, company_uuid)` settles with
\* e: res.status(200) after the await, res.status(500) in the catch block.
handlerResult(path, e) ==
    IF e = NoError THEN Res(200, path, NoError) ELSE Res(500, NoPath, e)

\* run() settles with e (NoError: it returns): the awaiting handler answers; the
\* standalone script has no caller.
Settle(r, e) ==
    /\ runError' = [runError EXCEPT ![r] = e]
    /\ res' = [res EXCEPT ![r] =
                  IF mode = "server" THEN handlerResult(filePath[r], e) ELSE NoRes]
    /\ pc' = [pc EXCEPT ![r] = "done"]

\* The handler answers without having called run().
Answer(r, response) ==
    /\ res' = [res EXCEPT ![r] = response]
    /\ pc' = [pc EXCEPT ![r] = "done"]
    /\ UNCHANGED <<files, filePath, companyUUID, runError>>

\* A request arrives: the middleware, then the handler up to `await run(...)`,
\* then run() up to `await chromium.launch(...)`.
UploadDrivers(r) ==
    /\ mode = "server"
    /\ pc[r] = "idle"
    /\ \A q \in Reqs : q < r => pc[q] # "idle"
    /\ \E key \in Keys, body \in Bodies, company_uuid \in CompanyIds :
        /\ apiKey' = [apiKey EXCEPT ![r] = key]
        /\ drivers' = [drivers EXCEPT ![r] = body]
        /\ IF authenticateAPIKey(key) = "403"
           THEN Answer(r, Res(403, NoPath, Error("Forbidden", "Invalid or missing API Key")))
           ELSE IF isRejectedBody(body)
           THEN Answer(r, Res(400, NoPath, Error("Invalid input", "Expected a non-empty array of drivers")))
           ELSE \/ /\ files' = (now :> tsvContent(body.items)) @@ files
                   /\ filePath' = [filePath EXCEPT ![r] = UploadPath(now)]
                   /\ companyUUID' = [companyUUID EXCEPT ![r] = company_uuid]
                   /\ pc' = [pc EXCEPT ![r] = "launch"]
                   /\ UNCHANGED <<res, runError>>
                \* fs.mkdirSync / fs.writeFileSync throws: caught by the handler
                \/ Answer(r, Res(500, NoPath, Rejected("writeFileSync")))
    /\ UNCHANGED <<envVars, tsvVars, now, browser, context, navigated, selected,
                   uploads, thrown, pending>>

\* if (require.main === module) run(): the standalone script, no arguments.
Main(r) ==
    /\ mode = "cli"
    /\ r = 1
    /\ pc[r] = "idle"
    /\ filePath' = [filePath EXCEPT ![r] = SamplePath]
    /\ companyUUID' = [companyUUID EXCEPT ![r] = ""]
    /\ pc' = [pc EXCEPT ![r] = "launch"]
    /\ UNCHANGED <<envVars, tsvVars, reqVars, now, files, browser, context, navigated,
                   selected, uploads, thrown, pending, runError, res>>

\* The millisecond clock advances.  Only an arriving request reads it, so it is
\* left alone once every request has arrived.
Tick ==
    /\ now < MaxClock
    /\ mode = "server"
    /\ \E r \in Reqs : pc[r] = "idle"
    /\ now' = now + 1
    /\ UNCHANGED <<envVars, tsvVars, reqVars, files, pc, filePath, companyUUID, browser,
                   context, navigated, selected, uploads, thrown, pending, runError, res>>

\* ------------------------------------------------------------------ main.ts
\* What no step of run() changes.
callVars == <<envVars, tsvVars, reqVars, now, files, filePath, companyUUID>>

\* run() goes on to await the next promise.
Await(r, next) ==
    /\ pc' = [pc EXCEPT ![r] = next]
    /\ UNCHANGED <<runError, res>>

\* A step inside the try block succeeds and run() awaits the next promise.
Proceed(r, next) ==
    /\ Await(r, next)
    /\ UNCHANGED thrown

\* A step inside the try block raises e: the catch block logs it and calls
\* page.screenshot.
Throw(r, e) ==
    /\ thrown' = [thrown EXCEPT ![r] = e]
    /\ pc' = [pc EXCEPT ![r] = "screenshot"]
    /\ UNCHANGED <<runError, res>>

\* await chromium.launch(...); then browser.newContext(...) is called.
Launch(r) ==
    /\ pc[r] = "launch"
    /\ \/ /\ browser' = [browser EXCEPT ![r] = "open"]
          /\ Await(r, "newContext")
       \/ /\ Settle(r, Rejected("chromium.launch"))
          /\ UNCHANGED browser
    /\ UNCHANGED <<callVars, context, navigated, selected, uploads, thrown, pending>>

\* await browser.newContext(...); then context.newPage() is called.  It is outside
\* the try block: a rejection leaves run() at once.
NewContext(r) ==
    /\ pc[r] = "newContext"
    /\ \/ /\ context' = [context EXCEPT ![r] = "open"]
          /\ Await(r, "newPage")
       \/ /\ Settle(r, Rejected("browser.newContext"))
          /\ UNCHANGED context
    /\ UNCHANGED <<callVars, browser, navigated, selected, uploads, thrown, pending>>

\* await context.newPage(), outside the try block too; then the try block is
\* entered and page.goto('https://secure.login.gov/') is called.
NewPage(r) ==
    /\ pc[r] = "newPage"
    /\ \/ /\ navigated' = [navigated EXCEPT ![r] = TRUE]
          /\ Await(r, "gotoLogin")
       \/ /\ Settle(r, Rejected("context.newPage"))
          /\ UNCHANGED navigated
    /\ UNCHANGED <<callVars, browser, context, selected, uploads, thrown, pending>>

\* await page.goto(login page).
GotoLogin(r) ==
    /\ pc[r] = "gotoLogin"
    /\ \/ Proceed(r, "loginForm")
       \/ Throw(r, Rejected("page.goto"))
    /\ UNCHANGED <<callVars, browser, context, navigated, selected, uploads, pending>>

\* The login form: email, password and login button, each looked up; the whole
\* block sits in its own try/catch, so whatever is missing the run goes on to
\* generate the token and call otpInput.first().fill(token).
LoginForm(r) ==
    /\ pc[r] = "loginForm"
    /\ \E email \in BOOLEAN, password \in BOOLEAN, loginButton \in BOOLEAN :
          Await(r, "otpInput")
    /\ UNCHANGED <<callVars, browser, context, navigated, selected, uploads, thrown,
                   pending>>

\* await otpInput.first().fill(token): no guard, no try/catch of its own.
FillOtp(r) ==
    /\ pc[r] = "otpInput"
    /\ \/ Proceed(r, "submitBtn")
       \/ Throw(r, NotFound(".one-time-code-input__input"))
    /\ UNCHANGED <<callVars, browser, context, navigated, selected, uploads, pending>>

\* if (await submitBtn.count() > 0) click; then waitForLoadState, waitForTimeout
\* and the Continue button, which is waited for inside a try/catch or clicked
\* only if visible.  Then page.goto(bulk upload page) unless already there.
SubmitAndContinue(r) ==
    /\ pc[r] = "submitBtn"
    /\ \E submitBtn \in BOOLEAN, continueBtn \in BOOLEAN, onBulkPage \in BOOLEAN :
          Await(r, IF onBulkPage THEN "postNav" ELSE "gotoBulk")
    /\ UNCHANGED <<callVars, browser, context, navigated, selected, uploads, thrown,
                   pending>>

\* await page.goto('https://clearinghouse.fmcsa.dot.gov/Query/Add/Bulk').
GotoBulk(r) ==
    /\ pc[r] = "gotoBulk"
    /\ \/ Proceed(r, "postNav")
       \/ Throw(r, Rejected("page.goto"))
    /\ UNCHANGED <<callVars, browser, context, navigated, selected, uploads, pending>>

\* The Continue button again (clicked only if found and visible), a second
\* page.goto if it redirected; then employerSelect.waitFor is called.
PostNav(r) ==
    /\ pc[r] = "postNav"
    /\ \E continueBtn \in BOOLEAN :
          \/ Proceed(r, "employerSelect")
          \/ continueBtn /\ Throw(r, Rejected("page.goto"))
    /\ UNCHANGED <<callVars, browser, context, navigated, selected, uploads, pending>>

\* const targetUUID = companyUUID || process.env.COMPANY_UUID
targetUUID(r) == IF companyUUID[r] # "" THEN companyUUID[r] ELSE COMPANY_UUID

\* await employerSelect.waitFor({ state: 'visible', timeout: 10000 }); then the
\* identifier is checked and employerSelect.selectOption(targetUUID) is called.
EmployerSelect(r) ==
    /\ pc[r] = "employerSelect"
    /\ \/ IF targetUUID(r) = ""
          THEN Throw(r, UuidRequired)
          ELSE Proceed(r, "selectOption")
       \/ Throw(r, NotFound("#EmployerId"))
    /\ UNCHANGED <<callVars, browser, context, navigated, selected, uploads, pending>>

\* await employerSelect.selectOption(targetUUID); then nextButton.count().
SelectOption(r) ==
    /\ pc[r] = "selectOption"
    /\ \/ /\ selected' = [selected EXCEPT ![r] = targetUUID(r)]
          /\ Proceed(r, "nextButton")
       \/ /\ Throw(r, Rejected("selectOption"))
          /\ UNCHANGED selected
    /\ UNCHANGED <<callVars, browser, context, navigated, uploads, pending>>

\* if (await nextButton.count() > 0) click, else log; then fileInput.waitFor.
NextButton(r) ==
    /\ pc[r] = "nextButton"
    /\ \E found \in BOOLEAN : Await(r, "fileInput")
    /\ UNCHANGED <<callVars, browser, context, navigated, selected, uploads, thrown,
                   pending>>

\* await fileInput.waitFor({ state: 'visible', timeout: 10000 }); then
\* fileInput.setInputFiles(filePath) is called.
FileInput(r) ==
    /\ pc[r] = "fileInput"
    /\ \/ Proceed(r, "setInputFiles")
       \/ Throw(r, NotFound("#BulkFile"))
    /\ UNCHANGED <<callVars, browser, context, navigated, selected, uploads, pending>>

\* The text of the file at a path, as the browser reads it.
readFile(path) == IF path = SamplePath THEN SampleTsv ELSE files[path.ts]

\* await fileInput.setInputFiles(filePath): the browser reads the file as it is
\* now; then page.waitForTimeout(3000).
SetInputFiles(r) ==
    /\ pc[r] = "setInputFiles"
    /\ uploads' = [uploads EXCEPT ![r] = Append(@, readFile(filePath[r]))]
    /\ Await(r, "waitForTimeout")
    /\ UNCHANGED <<callVars, browser, context, navigated, selected, thrown, pending>>

\* await page.waitForTimeout(3000); the try block ends and the finally block
\* calls context.close().
WaitForTimeout(r) ==
    /\ pc[r] = "waitForTimeout"
    /\ Await(r, "contextClose")
    /\ UNCHANGED <<callVars, browser, context, navigated, selected, uploads, thrown,
                   pending>>

\* catch (error): await page.screenshot(...).  If it resolves the catch block ends
\* and the caught error is dropped; if it rejects, its error is the one that
\* leaves the catch block.  Either way the finally block calls context.close().
Screenshot(r) ==
    /\ pc[r] = "screenshot"
    /\ \/ UNCHANGED pending
       \/ pending' = [pending EXCEPT ![r] = Rejected("page.screenshot")]
    /\ Await(r, "contextClose")
    /\ UNCHANGED <<callVars, browser, context, navigated, selected, uploads, thrown>>

\* finally: await context.close(); then browser.close() is called.  A rejection
\* leaves the finally block, and run(), with that error.
ContextClose(r) ==
    /\ pc[r] = "contextClose"
    /\ \/ /\ context' = [context EXCEPT ![r] = "closed"]
          /\ Await(r, "browserClose")
       \/ /\ Settle(r, Rejected("context.close"))
          /\ UNCHANGED context
    /\ UNCHANGED <<callVars, browser, navigated, selected, uploads, thrown, pending>>

\* finally: await browser.close(); then run() ends as the try/catch left it.
BrowserClose(r) ==
    /\ pc[r] = "browserClose"
    /\ \/ /\ browser' = [browser EXCEPT ![r] = "closed"]
          /\ Settle(r, pending[r])
       \/ /\ Settle(r, Rejected("browser.close"))
          /\ UNCHANGED browser
    /\ UNCHANGED <<callVars, context, navigated, selected, uploads, thrown, pending>>

Next ==
    \/ Tick
    \/ \E r \in Reqs :
        \/ UploadDrivers(r)
        \/ Main(r)
        \/ Launch(r)
        \/ NewContext(r)
        \/ NewPage(r)
        \/ GotoLogin(r)
        \/ LoginForm(r)
        \/ FillOtp(r)
        \/ SubmitAndContinue(r)
        \/ GotoBulk(r)
        \/ PostNav(r)
        \/ EmployerSelect(r)
        \/ SelectOption(r)
        \/ NextButton(r)
        \/ FileInput(r)
        \/ SetInputFiles(r)
        \/ WaitForTimeout(r)
        \/ Screenshot(r)
        \/ ContextClose(r)
        \/ BrowserClose(r)

Spec == Init /\ [][Next]_vars

\* ------------------------------------------------------------------ serialization
\* Field values of the serialization check: empty, plain, with a tab, with newlines.
FieldValues == {<<>>, <<"a">>, <<"a", TAB, "b">>, <<"a", NL, "b">>, <<NL, NL>>}

\* Driver records: John Doe, and John Doe with one field replaced.
Drivers ==
    {Doe} \cup {[Doe EXCEPT ![DriverData[k]] = v] : k \in 1..Len(DriverData), v \in FieldValues}

\* Non-empty arrays of at most MaxDrivers driver records.
DriverArrays == UNION {[1..n -> Drivers] : n \in 1..MaxDrivers}

InitTsv ==
    /\ mode = "server"
    /\ API_KEY = ""
    /\ COMPANY_UUID = ""
    /\ InitRequests
    /\ input \in DriverArrays
    /\ output = <<>>

\* The handler's "Convert JSON to TSV" on the validated body.
ConvertToTsv ==
    /\ output = <<>>
    /\ output' = tsvContent(input)
    /\ UNCHANGED <<envVars, reqVars, input, now, files, pc, filePath, companyUUID,
                   browser, context, navigated, selected, uploads, thrown, pending,
                   runError, res>>

NextTsv == ConvertToTsv

SpecTsv == InitTsv /\ [][NextTsv]_vars

\* ------------------------------------------------------------------ properties
\* run() has been called for request r.
runCalled(r) == filePath[r] # NoPath
\* run() has returned or raised.
runSettled(r) == runCalled(r) /\ pc[r] = "done"
\* The handler of POST /upload-drivers was entered for request r.
handlerEntered(r) == mode = "server" /\ pc[r] # "idle" /\ res[r].status # 403
\* No browser call was made for request r and nothing was uploaded.
noAutomation(r) ==
    /\ ~runCalled(r)
    /\ browser[r] = "none" /\ context[r] = "none"
    /\ ~navigated[r] /\ uploads[r] = <<>>
\* The seven field values of a record, in column order.
fieldsOf(d) == [k \in 1..Len(DriverData) |-> d[DriverData[k]]]
\* The column names, each a string of one chunk.
columnNames == [k \in 1..Len(DriverData) |-> <<DriverData[k]>>]
\* The number of newlines in the field values of an array of records.
RECURSIVE newlinesIn(_)
newlinesIn(ds) ==
    IF Len(ds) = 0 THEN 0
    ELSE count(join(fieldsOf(ds[1]), TAB), NL) + newlinesIn(Tail(ds))
\* The header line, then for each record in turn a newline and its tab-joined fields.
RECURSIVE headerThenRecords(_)
headerThenRecords(ds) ==
    IF Len(ds) = 0 THEN join(columnNames, TAB)
    ELSE headerThenRecords(SubSeq(ds, 1, Len(ds) - 1))
             \o <<NL>> \o join(fieldsOf(ds[Len(ds)]), TAB)
\* Line 1 is the header and line i+1 is the i-th record's tab-joined fields.
oneLinePerRecord(text, ds) ==
    LET lines == split(text, NL)
    IN  /\ Len(lines) = Len(ds) + 1
        /\ lines[1] = join(columnNames, TAB)
        /\ \A i \in 1..Len(ds) : lines[i + 1] = join(fieldsOf(ds[i]), TAB)

\* C1 (as stated): a request whose run() had a step of its try block raise is
\* answered 500 with an error in the body, never 200.
C1_StepFailureAnswered500 ==
    \A r \in Reqs :
        (mode = "server" /\ thrown[r] # NoError /\ res[r] # NoRes)
            => (res[r].status = 500 /\ res[r].details # NoError)

\* C2: a request whose body is an empty array or no array, once it is in the
\* handler, is answered 400, no file holds its serialization, and run() was not
\* called for it: no browser, no navigation, no upload.
C2_EmptyBodyRejected ==
    \A r \in Reqs :
        (handlerEntered(r) /\ (~drivers[r].isArray \/ drivers[r].items = <<>>))
            => /\ res[r].status = 400
               /\ pc[r] = "done"
               /\ noAutomation(r)
               /\ \A ts \in DOMAIN files : files[ts] # tsvContent(drivers[r].items)

\* C2, witness: both kinds of rejected body have been answered.
C2_Witness ==
    \E r, q \in Reqs :
        /\ res[r].status = 400 /\ drivers[r] = Array(<<>>)
        /\ res[q].status = 400 /\ drivers[q] = NotArray

\* C3 (as stated): when a run() without a companyUUID argument and without
\* COMPANY_UUID fails for want of the identifier, page.goto has not been called.
C3_NoNavigationWithoutUuid ==
    \A r \in Reqs :
        (/\ runCalled(r) /\ companyUUID[r] = "" /\ COMPANY_UUID = ""
         /\ thrown[r] = UuidRequired)
            => ~navigated[r]

\* C4 (as stated): once run() has returned or raised after launching the browser,
\* the browser is closed and no context is left open.
C4_SessionTornDown ==
    \A r \in Reqs :
        (runSettled(r) /\ browser[r] # "none")
            => (browser[r] = "closed" /\ context[r] # "open")

\* C5 (as stated): the text has one line per record after the header line, each
\* the record's tab-joined fields, so as many lines as records plus one.
C5_OneLinePerRecord ==
    output # <<>> => oneLinePerRecord(output, input)

\* C5 (amended): the text is the header line followed, for each record in input
\* order, by a newline and the record's seven fields tab-joined unchanged; it has
\* as many lines as records, plus one, plus the newlines inside field values, and
\* one line per record when no field value holds a newline.
C5_HeaderThenRecords ==
    output # <<>> =>
        /\ output = headerThenRecords(input)
        /\ Len(split(output, NL)) = Len(input) + 1 + newlinesIn(input)
        /\ newlinesIn(input) = 0 => oneLinePerRecord(output, input)

\* C5, witness: two records serialized, a newline inside a field of the second.
C5_Witness ==
    /\ output # <<>>
    /\ Len(input) = 2
    /\ newlinesIn(<<input[1]>>) = 0
    /\ newlinesIn(<<input[2]>>) > 0

\* C6: a request whose run() returned is answered 200 with the path it wrote and
\* gave to run(); and whenever a 200 has been sent, run() has returned, the file
\* exists at that path, and the context and the browser are closed.
C6_OkAfterRun ==
    \A r \in Reqs :
        /\ (mode = "server" /\ runSettled(r) /\ runError[r] = NoError)
               => res[r] = Res(200, filePath[r], NoError)
        /\ res[r].status = 200
               => /\ runSettled(r) /\ runError[r] = NoError
                  /\ res[r].file = filePath[r]
                  /\ filePath[r].name = "upload" /\ filePath[r].ts \in DOMAIN files
                  /\ browser[r] = "closed" /\ context[r] = "closed"

\* C6, witness: a request whose every step succeeded has been answered 200.
C6_Witness ==
    \E r \in Reqs : res[r].status = 200 /\ thrown[r] = NoError /\ uploads[r] # <<>>

C8_OnlyRequiredElementsFail ==
    \A r \in Reqs :
        thrown[r].kind = "TimeoutError" => thrown[r].what \in {"#EmployerId", "#BulkFile"}

\* C9 (as stated): when a step fails and the screenshot fails too, and the session
\* closes, the run does not end with the screenshot's failure.
C9_ScreenshotBestEffort ==
    \A r \in Reqs :
        (/\ runSettled(r)
         /\ thrown[r] # NoError
         /\ pending[r] = Rejected("page.screenshot")
         /\ context[r] = "closed" /\ browser[r] = "closed")
            => runError[r] # Rejected("page.screenshot")

\* C10 (as stated): the file a request's run uploads holds exactly that request's
\* serialized records.
C10_UploadsOwnRecords ==
    \A r \in Reqs :
        (mode = "server" /\ uploads[r] # <<>>)
            => uploads[r] = <<tsvContent(drivers[r].items)>>

====
